---------------------------- MODULE Spec2Model ----------------------------
(***************************************************************************)
(* Model of the gemini-image-mcp server (src/src/gemini_image_server.py)   *)
(* and of its batch runner (src/src/batch_generate.py).                    *)
(*                                                                         *)
(* Text values.  A file name or path is a sequence of tokens, so that      *)
(* "ends with .png", "append .png" and "split off the extension" are       *)
(* computed on it: <<"a", ".png">> is a.png, <<"b">> is b, <<"0">> is the   *)
(* text 0.  The empty sequence is the empty text / an absent key.  Other   *)
(* absent values (Python None) are the string None.                        *)
(***************************************************************************)
EXTENDS Integers, Sequences, FiniteSets, TLC

None == "None"

\* An absent path (reference_image=None, filename=None): the empty token sequence
NoPath == <<>>

\* ------------------------------------------------------------------ bounds
MaxQueue == 3
MaxRuns == 2
MaxOtherOps == 1
MaxRaceQueue == 2
MaxBuildRuns == 1
MaxLines == 3
MaxQueueOps == 6

\* ------------------------------------------------------- program constants
MAX_REF_IMAGES == 14

MODELS == [pro |-> "gemini-3-pro-image-preview", fast |-> "gemini-2.5-flash-image"]

models == [pro |-> "gemini-3-pro-image-preview", fast |-> "gemini-2.5-flash-image"]

size_map == [small |-> "1K", medium |-> "2K", large |-> "2K", xlarge |-> "4K"]

\* dict.get(key, default) on one of the string-keyed tables above
TableGet(table, key, default) == IF key \in DOMAIN table THEN table[key] ELSE default

\* arguments.get(key, default) / prompt_data.get(key, default): an absent key
\* (None, or the empty sequence for a list or a file name) yields the default
Get(value, default) == IF value = None THEN default ELSE value

\* ------------------------------------------------------------ file system
\* The reference files that exist on disk (os.path.exists).
RefA == <<"ref_a", ".png">>
RefB == <<"ref_b", ".jpg">>
RefMissing == <<"ref_missing", ".png">>
ExistingFiles == {RefA, RefB}

exists(path) == path \in ExistingFiles

\* os.path.splitext(path)[1].lower()
Extensions == {".png", ".jpg", ".jpeg", ".webp", ".gif", ".bmp"}
splitext(path) ==
    IF Len(path) > 1 /\ path[Len(path)] \in Extensions THEN path[Len(path)] ELSE ""

mime_map == (".png" :> "image/png") @@ (".jpg" :> "image/jpeg") @@ (".jpeg" :> "image/jpeg")
            @@ (".webp" :> "image/webp") @@ (".gif" :> "image/gif")

get_mime_type(file_path) == TableGet(mime_map, splitext(file_path), "image/png")

\* base64 of the file's bytes: one value per file, distinct from the path
b64(path) == <<"b64">> \o path

\* ----------------------------------------------------------------- errors
NoError == [kind |-> "none", path |-> <<>>, n |-> 0, limit |-> 0]
Error(kind, path, n, limit) == [kind |-> kind, path |-> path, n |-> n, limit |-> limit]
TooMany(n) == Error("Too many reference images", <<>>, n, MAX_REF_IMAGES)
NotFound(path) == Error("Reference image not found", path, 0, 0)
KeyMissing == Error("GEMINI_API_KEY not set", <<>>, 0, 0)
ApiError(code) == Error("API error", <<>>, code, 0)
NoImageData == Error("No image data in API response", <<>>, 0, 0)
BadBody == Error("KeyError", <<>>, 0, 0)

\* ------------------------------------------------- reference image encoder
\* _normalize_reference_images: the list if it is non-empty, else the single
\* path if given; more than MAX_REF_IMAGES paths raise.
normalize_paths(reference_images, reference_image) ==
    IF reference_images # <<>> THEN reference_images
    ELSE IF reference_image # NoPath THEN <<reference_image>>
    ELSE <<>>

_normalize_reference_images(reference_images, reference_image) ==
    LET paths == normalize_paths(reference_images, reference_image)
    IN  IF Len(paths) > MAX_REF_IMAGES
        THEN [ok |-> FALSE, error |-> TooMany(Len(paths)), paths |-> <<>>]
        ELSE [ok |-> TRUE, error |-> NoError, paths |-> paths]

\* index of the first path that does not exist, 0 if all exist
RECURSIVE FirstMissing(_, _)
FirstMissing(paths, k) ==
    IF k > Len(paths) THEN 0
    ELSE IF ~exists(paths[k]) THEN k
    ELSE FirstMissing(paths, k + 1)

InlinePart(path) == [inlineData |-> [mimeType |-> get_mime_type(path), data |-> b64(path)]]

\* Faulty variant, for comparison: a path that does not exist is skipped instead of raising
_encode_skipping_missing(paths) ==
    [ok |-> TRUE, error |-> NoError,
     parts |-> [k \in 1..Len(SelectSeq(paths, exists)) |-> InlinePart(SelectSeq(paths, exists)[k])]]

\* _encode_reference_images (server) and encode_reference_images (batch):
\* the first missing path raises, otherwise one inlineData part per path, in order
_encode_reference_images(paths) ==
    LET m == FirstMissing(paths, 1)
    IN  IF m # 0
        THEN [ok |-> FALSE, error |-> NotFound(paths[m]), parts |-> <<>>]
        ELSE [ok |-> TRUE, error |-> NoError,
              parts |-> [k \in 1..Len(paths) |-> InlinePart(paths[k])]]

encode_reference_images(ref_list) ==
    LET m == FirstMissing(ref_list, 1)
    IN  IF m # 0
        THEN [ok |-> FALSE, error |-> NotFound(ref_list[m]), parts |-> <<>>]
        ELSE [ok |-> TRUE, error |-> NoError,
              parts |-> [k \in 1..Len(ref_list) |-> InlinePart(ref_list[k])]]

\* ------------------------------------------------------------ external API
\* What the endpoint may answer to one POST: 200 with an inline image part,
\* a non-200 status, 200 with text parts only, 200 with a body that has no
\* candidates (a KeyError when it is scanned).
Responses == {"image", "http_error", "no_image", "bad_body"}
HttpStatus(response) == IF response = "http_error" THEN 500 ELSE 200

\* the scan of the response after the POST; the error it raises, if any
response_error(response) ==
    IF HttpStatus(response) # 200 THEN ApiError(HttpStatus(response))
    ELSE IF response = "bad_body" THEN BadBody
    ELSE IF response = "no_image" THEN NoImageData
    ELSE NoError

\* Faulty variant, for comparison: a non-200 answer is retried once
post_retry(payload, response) ==
    IF response = "http_error" THEN <<payload, payload>> ELSE <<payload>>

\* requests.post: the POSTs one generation issues for its payload
post(payload, response) == <<payload>>

NoPayload == [model |-> None, parts |-> <<>>, imageConfig |-> [aspectRatio |-> None]]

\* Faulty variant, for comparison: imageSize is sent on either model
image_config_with_size(quality, aspect_ratio, gemini_size) ==
    [aspectRatio |-> aspect_ratio, imageSize |-> gemini_size]

\* the imageConfig block: imageSize only on the pro model
image_config(quality, aspect_ratio, gemini_size) ==
    IF quality = "pro"
    THEN [aspectRatio |-> aspect_ratio, imageSize |-> gemini_size]
    ELSE [aspectRatio |-> aspect_ratio]

\* --------------------------------------------------- single-shot generator
\* Faulty variant, for comparison: an unknown tier falls to the fast model
coerce_quality_to_fast(quality) == IF quality \in DOMAIN MODELS THEN quality ELSE "fast"

\* quality = quality if quality in MODELS else "pro"
coerce_quality(quality) == IF quality \in DOMAIN MODELS THEN quality ELSE "pro"

\* "Fast mode defaults to small if not explicitly set"
fast_default_size(quality, image_size) ==
    IF quality = "fast" /\ image_size = "large" THEN "small" ELSE image_size

\* Faulty variant, for comparison: the references are taken whatever the model
server_ref_paths_any_tier(quality, reference_images, reference_image) ==
    _normalize_reference_images(reference_images, reference_image)

\* reference paths of generate_image / add_to_batch: only on the pro model
server_ref_paths(quality, reference_images, reference_image) ==
    IF quality = "pro"
    THEN _normalize_reference_images(reference_images, reference_image)
    ELSE [ok |-> TRUE, error |-> NoError, paths |-> <<>>]

Outcome(success, error, posts, gemini_size, aspect_ratio, quality, model, nrefs) ==
    [success |-> success, error |-> error, posts |-> posts,
     resolution |-> gemini_size, aspect_ratio |-> aspect_ratio, quality |-> quality,
     model |-> model, reference_images_used |-> nrefs]

\* generate_image(prompt, aspect_ratio, image_size, reference_image,
\* reference_images, quality) with the credential `api_key` (a BOOLEAN: set or
\* not) and the endpoint's answer `response`.  The outcome records the POSTs
\* issued and, on success, the returned metadata.
generate_image(prompt, aspect_ratio, image_size, reference_image, reference_images, quality, api_key, response) ==
    LET q == coerce_quality(quality)
        model == MODELS[q]
        gemini_size == TableGet(size_map, fast_default_size(q, image_size), "2K")
        refs == server_ref_paths(q, reference_images, reference_image)
        enc == _encode_reference_images(refs.paths)
        payload == [model |-> model,
                    parts |-> Append(enc.parts, [text |-> prompt]),
                    imageConfig |-> image_config(q, aspect_ratio, gemini_size)]
        failed(e, posts) == Outcome(FALSE, e, posts, None, None, None, None, 0)
    IN  IF ~api_key THEN failed(KeyMissing, <<>>)
        ELSE IF ~refs.ok THEN failed(refs.error, <<>>)
        ELSE IF ~enc.ok THEN failed(enc.error, <<>>)
        ELSE IF response_error(response) # NoError
             THEN failed(response_error(response), post(payload, response))
        ELSE Outcome(TRUE, NoError, post(payload, response), gemini_size, aspect_ratio,
                     q, model, Len(refs.paths))

\* handle_tool_call, tool generate_image: the defaults of absent arguments
tool_generate_image(arguments, api_key, response) ==
    generate_image(arguments.prompt, Get(arguments.aspect_ratio, "1:1"),
                   Get(arguments.image_size, "large"), arguments.reference_image,
                   arguments.reference_images, Get(arguments.quality, "pro"),
                   api_key, response)

\* ------------------------------------------------------------ batch runner
\* Faulty variant, for comparison: the entry is dequeued by its position in the snapshot
item_queue_filename_by_position(prompt_data, i) == <<ToString(i - 1)>>

\* filename = prompt_data.get('filename', f'image_{i}.png'); this is also the
\* queue_filename later handed to the queue's remove
item_queue_filename(prompt_data, i) ==
    IF prompt_data.filename = <<>> THEN <<"image_", ToString(i), ".png">>
    ELSE prompt_data.filename

endswith_png(filename) == Len(filename) > 0 /\ filename[Len(filename)] = ".png"

\* if not filename.endswith('.png'): filename = f"{filename}.png"
item_filename(prompt_data, i) ==
    LET filename == item_queue_filename(prompt_data, i)
    IN  IF endswith_png(filename) THEN filename ELSE Append(filename, ".png")

\* quality = prompt_data.get('quality', 'pro'); coerced to pro if unknown
item_quality(prompt_data) ==
    LET quality == Get(prompt_data.quality, "pro")
    IN  IF quality \in DOMAIN models THEN quality ELSE "pro"

\* "Reference images only for pro model": the list, else the single path
item_reference_images(prompt_data) ==
    IF item_quality(prompt_data) = "pro"
    THEN IF prompt_data.reference_images # <<>> THEN prompt_data.reference_images
         ELSE IF prompt_data.reference_image # NoPath THEN <<prompt_data.reference_image>>
         ELSE <<>>
    ELSE <<>>

\* gemini_size = size_map.get(prompt_data.get('image_size', 'large'), '2K')
item_gemini_size(prompt_data) == TableGet(size_map, Get(prompt_data.image_size, "large"), "2K")

\* print(f"Prompt: {prompt[:80]}..."), outside the try: slicing None raises a
\* TypeError that nothing catches
item_crashes(prompt_data) == prompt_data.prompt = None

Result(filename, status, error, gemini_size, aspect_ratio, nrefs) ==
    [filename |-> filename, status |-> status, error |-> error, resolution |-> gemini_size,
     aspect_ratio |-> aspect_ratio, reference_images_used |-> nrefs]

\* One pass of the loop body for the i-th snapshot entry, up to and excluding
\* remove_from_queue: whether the process dies, the POSTs issued, the image
\* file written (<<>> if none) and the result appended.
batch_item(prompt_data, i, response) ==
    LET filename == item_filename(prompt_data, i)
        aspect_ratio == Get(prompt_data.aspect_ratio, "1:1")
        quality == item_quality(prompt_data)
        reference_images == item_reference_images(prompt_data)
        gemini_size == item_gemini_size(prompt_data)
        enc == encode_reference_images(reference_images)
        payload == [model |-> models[quality],
                    parts |-> Append(enc.parts, [text |-> prompt_data.prompt]),
                    imageConfig |-> image_config(quality, aspect_ratio, gemini_size)]
        failed(e, posts) ==
            [crash |-> FALSE, posts |-> posts, written |-> <<>>,
             result |-> Result(filename, "error", e, None, None, 0)]
    IN  IF item_crashes(prompt_data)
        THEN [crash |-> TRUE, posts |-> <<>>, written |-> <<>>,
              result |-> Result(filename, "error", Error("TypeError", <<>>, 0, 0), None, None, 0)]
        ELSE IF ~enc.ok THEN failed(enc.error, <<>>)
        ELSE IF response_error(response) # NoError
             THEN failed(response_error(response), post(payload, response))
        ELSE [crash |-> FALSE, posts |-> post(payload, response), written |-> filename,
              result |-> Result(filename, "success", NoError, gemini_size, aspect_ratio,
                                Len(reference_images))]

\* --------------------------------------------------------- queue store
\* The queue manager script (CFG["batch_manager_script"]) is not part of the
\* sources; it is modelled from the specification's section 4.5.
Digits == {"0", "1", "2", "3", "4", "5", "6", "7", "8", "9"}
DigitValue(d) == CHOOSE n \in 0..9 : ToString(n) = d

\* the identifier parsed as a non-negative integer, -1 if it is not one
ParseIndex(identifier) ==
    IF Len(identifier) = 1 /\ identifier[1] \in Digits THEN DigitValue(identifier[1]) ELSE -1

\* 1-based position of the first entry whose filename is `filename`, 0 if none
RECURSIVE FirstMatch(_, _, _)
FirstMatch(q, filename, k) ==
    IF k > Len(q) THEN 0
    ELSE IF q[k].filename = filename THEN k
    ELSE FirstMatch(q, filename, k + 1)

\* Faulty variant, for comparison: the entries after the removed one go too
RemoveAtAndAfter(q, k) == SubSeq(q, 1, k - 1)

RemoveAt(q, k) == [j \in 1..(Len(q) - 1) |-> IF j < k THEN q[j] ELSE q[j + 1]]

\* Faulty variant, for comparison: the identifier is only ever a filename
RemovePositionByName(q, identifier) == FirstMatch(q, identifier, 1)

\* remove(identifier): 1-based position removed, 0 if NotFound
RemovePosition(q, identifier) ==
    LET n == ParseIndex(identifier)
    IN  IF n >= 0 /\ n < Len(q) THEN n + 1
        ELSE IF identifier = <<>> THEN 0
        ELSE FirstMatch(q, identifier, 1)

QueueRemove(q, identifier) ==
    IF RemovePosition(q, identifier) = 0 THEN q ELSE RemoveAt(q, RemovePosition(q, identifier))

\* add: the resolved filename (defaulted if absent, suffixed to .png)
ResolveFilename(filename, position) ==
    LET f == IF filename = <<>> THEN <<"image_", ToString(position)>> ELSE filename
    IN  IF endswith_png(f) THEN f ELSE Append(f, ".png")

\* Faulty variant, for comparison: the new entry is put at the head
QueueAddFirst(q, entry) ==
    <<[entry EXCEPT !.filename = ResolveFilename(entry.filename, Len(q))]>> \o q

QueueAdd(q, entry) ==
    Append(q, [entry EXCEPT !.filename = ResolveFilename(entry.filename, Len(q))])

\* a completed queue operation and what it reported
Done(op, identifier, reported) == [op |-> op, identifier |-> identifier, reported |-> reported]

\* add_to_batch: the command line handed to the queue manager's add, as the
\* entry it describes; too many references (pro) and an absent prompt (a None
\* in the argument vector) raise before anything is queued
add_to_batch(prompt, filename, aspect_ratio, image_size, reference_image, reference_images, quality) ==
    LET q == coerce_quality(quality)
        refs == server_ref_paths(q, reference_images, reference_image)
        size == fast_default_size(q, image_size)
        entry == [prompt |-> prompt, filename |-> filename,
                  aspect_ratio |-> Get(aspect_ratio, "16:9"),
                  image_size |-> Get(size, "large"),
                  quality |-> q,
                  reference_images |-> refs.paths, reference_image |-> NoPath]
    IN  IF ~refs.ok THEN [ok |-> FALSE, error |-> refs.error, entry |-> entry]
        ELSE IF prompt = None
             THEN [ok |-> FALSE, error |-> Error("TypeError", <<>>, 0, 0), entry |-> entry]
        ELSE [ok |-> TRUE, error |-> NoError, entry |-> entry]

\* handle_tool_call, tool add_to_batch: the defaults of absent arguments
tool_add_to_batch(arguments) ==
    add_to_batch(arguments.prompt, arguments.filename, Get(arguments.aspect_ratio, "16:9"),
                 Get(arguments.image_size, "large"), arguments.reference_image,
                 arguments.reference_images, Get(arguments.quality, "pro"))

\* ------------------------------------------------------------- dispatcher
\* A line of stdin, by what json.loads makes of it: eof (readline returned
\* ''), malformed (json.loads raises), null, array (a value without .get), or
\* object, a message with its method, id and params.
NoId == -1
NoArguments == [prompt |-> None, filename |-> NoPath, aspect_ratio |-> None, image_size |-> None,
                quality |-> None, reference_images |-> <<>>, reference_image |-> NoPath,
                identifier |-> <<>>]
Arguments(shape, value) == [shape |-> shape, value |-> value]
Params(shape, name, arguments) == [shape |-> shape, name |-> name, arguments |-> arguments]
NoParams == Params("absent", None, Arguments("absent", NoArguments))
Line(text, method, id, params) == [text |-> text, method |-> method, id |-> id, params |-> params]
RawLine(text) == Line(text, None, NoId, NoParams)
EofLine == RawLine("eof")

\* read_message: None at end of input and for the line "null"; json.loads
\* raises on a malformed line
read_message(l) ==
    [raised |-> l.text = "malformed", none |-> l.text \in {"eof", "null"}]

\* message.get / params.get / arguments.get exist on a JSON object only;
\* an absent key takes the default {}
has_get(shape) == shape \in {"absent", "object"}

\* the messages written by send_message
Message(id, kind, code, text) == [id |-> id, kind |-> kind, code |-> code, text |-> text]
ResultMessage(request_id, text) == Message(request_id, "result", 0, text)
ErrorMessage(request_id, text) == Message(request_id, "error", -32000, text)

ControlMethods == {"initialize", "tools/list"}
ToolNames == {"generate_image", "add_to_batch", "remove_from_batch", "view_batch_queue",
              "run_batch", "convert_to_webp", "get_generated_webp_images",
              "upload_to_wordpress"}
\* the tools whose call reads arguments.get(...)
ReadsArguments == ToolNames \ {"view_batch_queue", "run_batch"}

\* what an operation did: returned a result or raised, with str(e)
Returned(text) == [raised |-> FALSE, text |-> text]
Raised(text) == [raised |-> TRUE, text |-> text]

\* Faulty variant, for comparison: a failure is reported inside a result envelope
handle_tool_call_result_only(request_id, outcome) == ResultMessage(request_id, outcome.text)

\* handle_tool_call: the result envelope, or the error envelope of the
\* except clause
handle_tool_call(request_id, outcome) ==
    IF outcome.raised THEN ErrorMessage(request_id, outcome.text)
    ELSE ResultMessage(request_id, outcome.text)

\* the branch of handle_tool_call taken before the operation runs: the
\* unknown name raises; arguments without .get raise AttributeError
tool_precheck(tool_name, arguments) ==
    IF tool_name \notin ToolNames THEN Raised(<<"Unknown tool: ", tool_name>>)
    ELSE IF tool_name \in ReadsArguments /\ ~has_get(arguments.shape)
         THEN Raised(<<"AttributeError">>)
    ELSE Returned(<<>>)

\* the exit status of the batch process: 0 when generate_images_batch
\* returns, 1 when an exception leaves it
returncode(ended) == IF ended = "crashed" THEN 1 ELSE 0

\* run_batch's dict as json.dumps writes it into the result envelope
RunBatchResult(success, error) ==
    <<"success", IF success THEN "true" ELSE "false", "error", error>>

\* Faulty variant, for comparison: the credential is not looked at
run_batch_ignoring_key(api_key, code) ==
    RunBatchResult(code = 0, IF code # 0 THEN "stderr" ELSE "null")

\* Faulty variant, for comparison: stderr is reported whatever the exit status
run_batch_reporting_stderr(api_key, code) ==
    IF ~api_key THEN RunBatchResult(FALSE, "GEMINI_API_KEY not set")
    ELSE RunBatchResult(code = 0, "stderr")

\* run_batch: refused without a credential, else success by the exit status
\* of the batch process, with its stderr as the error if that is not 0
run_batch(api_key, code) ==
    IF ~api_key THEN RunBatchResult(FALSE, "GEMINI_API_KEY not set")
    ELSE RunBatchResult(code = 0, IF code # 0 THEN "stderr" ELSE "null")

\* remove_from_batch: str(identifier)
str_identifier(identifier) == IF identifier = <<>> THEN <<"None">> ELSE identifier

\* ------------------------------------------------------------------ state
VARIABLES
    apiKey,     \* whether GEMINI_API_KEY is set
    queue,      \* the queue file: the ordered list of pending entries
    req,        \* the arguments of the tool call under way at the dispatcher
    gen,        \* outcome of the last generate_image call (success = None: none yet)
    added,      \* result of the last add_to_batch call
    pc,         \* the batch process: idle; item, remove, persist, write while it
                \* runs; nokey, empty, done, crashed once it has ended
    runs,       \* batch runs started so far
    prompts,    \* the run's snapshot of the queue file
    i,          \* 1-based index of the snapshot entry being processed
    result,     \* the loop body's local `result`, appended after the remove
    results,    \* the run's results list
    posts,      \* the POSTs of the run: <<index, payload>>, in order
    sleeps,     \* time.sleep(delay) calls of the run
    images,     \* names of the image files in the batch output directory
    summary,    \* batch_results.json: its content and how often the run wrote it
    rmLocal,    \* the queue as loaded by the run's pending remove
    lastFailed, \* the last run that completed its loop, and its entries whose result
                \* was an error
    invPc,      \* the other invoker's queue operation: idle, add, remove
    invLocal,   \* the queue as loaded by that operation
    invArg,     \* the entry it adds or the identifier it removes
    otherOps,   \* queue operations the other invoker has started
    lateAdds,   \* entries the other invoker queued while the current run was under way
    history,    \* the completed queue operations, in order, with what each reported:
                \* the index given to the added entry, the index removed or -1
                \* for NotFound
    srvPc,      \* the server's main loop: read (at read_message), run_batch (blocked
                \* in the batch subprocess), stopped (loop left)
    line,       \* the line last read from stdin
    sent,       \* the messages written to stdout: <<number of the line answered, message>>
    reads,      \* lines read so far
    awaited     \* the batch run the blocked run_batch call waits for

vars == <<apiKey, queue, req, gen, added, pc, runs, prompts, i, result, results, posts, sleeps,
          images, summary, rmLocal, lastFailed, invPc, invLocal, invArg, otherOps, lateAdds,
          history, srvPc, line, sent, reads, awaited>>

runVars == <<pc, runs, prompts, i, result, results, posts, sleeps, images, summary, rmLocal, lastFailed>>
invVars == <<invPc, invLocal, invArg, otherOps, lateAdds, added, history>>
srvVars == <<srvPc, line, sent, reads, awaited>>

\* ----------------------------------------------------------------- inputs
Entry(prompt, filename, quality, reference_images) ==
    [prompt |-> prompt, filename |-> filename, aspect_ratio |-> None, image_size |-> None,
     quality |-> quality, reference_images |-> reference_images, reference_image |-> NoPath]

\* Entries of the queue file a batch run may find: two with the same file
\* name (one of them with a missing reference), one without a prompt, one
\* for the fast model whose file name lacks the .png suffix.
BatchEntries ==
    { Entry("p1", <<"a", ".png">>, "pro", <<>>),
      Entry("p2", <<"a", ".png">>, None, <<RefMissing>>),
      Entry(None, <<"c", ".png">>, "pro", <<>>),
      Entry("p4", <<"b">>, "fast", <<>>) }

RECURSIVE SeqsUpTo(_, _)
SeqsUpTo(S, n) ==
    IF n = 0 THEN {<<>>}
    ELSE LET shorter == SeqsUpTo(S, n - 1)
         IN  shorter \cup {Append(q, e) : q \in shorter, e \in S}

\* What the other invoker adds and which identifiers it removes
AddArgs == { Entry("p3", <<"n", ".png">>, "pro", <<>>) }
RemoveIdentifiers == { <<"0">>, <<"a", ".png">> }

\* nothing read from stdin yet
NoLine == RawLine("none")

GenIdle == Outcome(FALSE, NoError, <<>>, None, None, None, None, 0)
AddIdle == [ok |-> FALSE, error |-> NoError, index |-> -1]

InitRest ==
    /\ apiKey \in BOOLEAN
    /\ gen = GenIdle
    /\ added = AddIdle
    /\ pc = "idle" /\ runs = 0 /\ prompts = <<>> /\ i = 1
    /\ result = Result(<<>>, "none", NoError, None, None, 0)
    /\ results = <<>> /\ posts = <<>> /\ sleeps = 0 /\ images = {}
    /\ summary = [run |-> 0, content |-> <<>>, writes |-> 0]
    /\ rmLocal = <<>> /\ lastFailed = [run |-> 0, entries |-> <<>>]
    /\ invPc = "idle" /\ invLocal = <<>> /\ invArg = <<>> /\ otherOps = 0 /\ lateAdds = {}
    /\ history = <<>>
    /\ srvPc = "read" /\ line = NoLine /\ sent = <<>> /\ reads = 0 /\ awaited = 0

Init ==
    /\ queue \in SeqsUpTo(BatchEntries, MaxQueue)
    /\ req \in AddArgs
    /\ InitRest

\* ------------------------------------------------------------ batch runner
Running == pc \in {"item", "remove", "persist", "write"}

\* the snapshot entries at the positions whose result is an error
RECURSIVE FailedEntries(_, _, _)
FailedEntries(snapshot, res, k) ==
    IF k > Len(snapshot) \/ k > Len(res) THEN <<>>
    ELSE (IF res[k].status = "error" THEN <<snapshot[k]>> ELSE <<>>)
         \o FailedEntries(snapshot, res, k + 1)

\* generate_images_batch up to the loop: the credential check, the one load
\* of the queue file, the early return on an empty list
RunStart ==
    /\ ~Running
    /\ runs < MaxRuns
    /\ runs' = runs + 1
    /\ results' = <<>> /\ posts' = <<>> /\ sleeps' = 0 /\ i' = 1
    /\ summary' = [summary EXCEPT !.writes = 0]
    /\ lateAdds' = {}
    /\ IF ~apiKey THEN pc' = "nokey" /\ prompts' = <<>>
       ELSE /\ prompts' = queue
            /\ pc' = IF queue = <<>> THEN "empty" ELSE "item"
    /\ UNCHANGED <<apiKey, queue, req, gen, added, result, images, rmLocal, lastFailed,
                   invPc, invLocal, invArg, otherOps>>
    /\ UNCHANGED <<history>> /\ UNCHANGED srvVars

\* Faulty variant, for comparison: the loop is left after its first pass
after_item_break(k, n) == "write"

\* where the loop goes after the i-th item: the pause and the next item, or
\* past the loop
after_item(k, n) == IF k < n THEN "item" ELSE "write"

\* Faulty variant, for comparison: the pause follows every item
pauses_after_every_item(k, n) == 1

\* if i < len(prompts): time.sleep(delay)
pauses(k, n) == IF k < n THEN 1 ELSE 0

\* the loop body for prompts[i] up to remove_from_queue
RunItem ==
    /\ pc = "item"
    /\ \E response \in Responses :
         LET r == batch_item(prompts[i], i, response)
         IN  /\ posts' = posts \o [k \in 1..Len(r.posts) |-> <<i, r.posts[k]>>]
             /\ images' = IF r.written = <<>> THEN images ELSE images \cup {r.written}
             /\ result' = r.result
             /\ IF r.crash
                THEN pc' = "crashed" /\ UNCHANGED <<results, i, sleeps>>
                ELSE IF r.result.status = "success"
                THEN pc' = "remove" /\ UNCHANGED <<results, i, sleeps>>
                ELSE /\ results' = Append(results, r.result)
                     /\ pc' = after_item(i, Len(prompts))
                     /\ sleeps' = sleeps + pauses(i, Len(prompts))
                     /\ i' = i + 1
    /\ UNCHANGED <<apiKey, queue, req, gen, added, runs, prompts, summary, rmLocal, lastFailed,
                   invPc, invLocal, invArg, otherOps, lateAdds>>
    /\ UNCHANGED <<history>> /\ UNCHANGED srvVars

\* remove_from_queue(queue_filename): the queue manager loads the queue file
RunRemoveLoad ==
    /\ pc = "remove"
    /\ rmLocal' = queue
    /\ pc' = "persist"
    /\ UNCHANGED <<apiKey, queue, req, gen, added, runs, prompts, i, result, results, posts,
                   sleeps, images, summary, lastFailed, invPc, invLocal, invArg, otherOps,
                   lateAdds>>
    /\ UNCHANGED <<history>> /\ UNCHANGED srvVars

\* ... removes the entry and writes the file back; then results.append(result)
\* and the pause
RunRemovePersist ==
    /\ pc = "persist"
    /\ queue' = IF RemovePosition(rmLocal, item_queue_filename(prompts[i], i)) = 0 THEN queue
                ELSE QueueRemove(rmLocal, item_queue_filename(prompts[i], i))
    /\ results' = Append(results, result)
    /\ pc' = after_item(i, Len(prompts))
    /\ sleeps' = sleeps + pauses(i, Len(prompts))
    /\ i' = i + 1
    /\ UNCHANGED <<apiKey, req, gen, added, runs, prompts, result, posts, images, summary,
                   rmLocal, lastFailed, invPc, invLocal, invArg, otherOps, lateAdds>>
    /\ UNCHANGED <<history>> /\ UNCHANGED srvVars

\* after the loop: json.dump(results) into batch_results.json
RunWrite ==
    /\ pc = "write"
    /\ summary' = [run |-> runs, content |-> results, writes |-> summary.writes + 1]
    /\ lastFailed' = [run |-> runs, entries |-> FailedEntries(prompts, results, 1)]
    /\ pc' = "done"
    /\ UNCHANGED <<apiKey, queue, req, gen, added, runs, prompts, i, result, results, posts,
                   sleeps, images, rmLocal, invPc, invLocal, invArg, otherOps, lateAdds>>
    /\ UNCHANGED <<history>> /\ UNCHANGED srvVars

\* ---------------------------------------------- the server's tool calls
\* generate_image: one call, its outcome kept in gen
GenerateImage(arguments) ==
    /\ gen = GenIdle
    /\ \E response \in Responses : gen' = tool_generate_image(arguments, apiKey, response)
    /\ req' = arguments
    /\ UNCHANGED <<apiKey, queue, added>>
    /\ UNCHANGED runVars
    /\ UNCHANGED <<invPc, invLocal, invArg, otherOps, lateAdds, history>>
    /\ UNCHANGED srvVars

\* add_to_batch: the server builds the command; the queue manager loads the file
AddLoad(arguments) ==
    /\ invPc = "idle"
    /\ otherOps' = otherOps + 1
    /\ req' = arguments
    /\ LET a == tool_add_to_batch(arguments)
       IN  IF a.ok
           THEN /\ invPc' = "add" /\ invLocal' = queue /\ invArg' = a.entry
                /\ UNCHANGED added
           ELSE /\ added' = [ok |-> FALSE, error |-> a.error, index |-> -1]
                /\ UNCHANGED <<invPc, invLocal, invArg>>
    /\ UNCHANGED <<apiKey, queue, gen, lateAdds, history>>
    /\ UNCHANGED runVars /\ UNCHANGED srvVars

\* ... appends the entry, writes the file back and reports the entry's index
AddPersist ==
    /\ invPc = "add"
    /\ queue' = QueueAdd(invLocal, invArg)
    /\ added' = [ok |-> TRUE, error |-> NoError, index |-> Len(invLocal)]
    /\ lateAdds' = IF Running THEN lateAdds \cup {QueueAdd(invLocal, invArg)[Len(invLocal) + 1]}
                   ELSE lateAdds
    /\ history' = Append(history, Done("add", <<>>, Len(invLocal)))
    /\ invPc' = "idle"
    /\ UNCHANGED <<apiKey, req, gen, invLocal, invArg, otherOps>>
    /\ UNCHANGED runVars /\ UNCHANGED srvVars

\* remove_from_batch(identifier): the queue manager loads the file
RemoveLoad(identifier) ==
    /\ invPc = "idle"
    /\ otherOps' = otherOps + 1
    /\ invPc' = "remove" /\ invLocal' = queue /\ invArg' = identifier
    /\ UNCHANGED <<apiKey, queue, req, gen, added, lateAdds, history>>
    /\ UNCHANGED runVars /\ UNCHANGED srvVars

\* ... removes the entry the identifier resolves to and writes the file back
RemovePersist ==
    /\ invPc = "remove"
    /\ queue' = IF RemovePosition(invLocal, invArg) = 0 THEN queue
                ELSE QueueRemove(invLocal, invArg)
    /\ history' = Append(history, Done("remove", invArg, RemovePosition(invLocal, invArg) - 1))
    /\ invPc' = "idle"
    /\ UNCHANGED <<apiKey, req, gen, added, invLocal, invArg, otherOps, lateAdds>>
    /\ UNCHANGED runVars /\ UNCHANGED srvVars

\* ------------------------------------------------- the server's main loop
invRest == <<invPc, invLocal, invArg, otherOps, lateAdds>>

\* a line whose handling writes nothing and leaves the loop running: json.loads
\* raised, or message.get / params.get raised AttributeError (both caught in
\* main), or no branch of main matches the method
Unanswered(l) ==
    \/ read_message(l).raised
    \/ l.text = "array"
    \/ l.text = "object" /\ l.method \notin (ControlMethods \cup {"tools/call"})
    \/ l.text = "object" /\ l.method = "tools/call" /\ ~has_get(l.params.shape)

\* main: read_message returned None, the loop is left
ServeStop(l) ==
    /\ srvPc = "read" /\ reads < MaxLines
    /\ ~read_message(l).raised /\ read_message(l).none
    /\ line' = l /\ reads' = reads + 1
    /\ srvPc' = "stopped"
    /\ UNCHANGED <<apiKey, queue, req, gen, added, history, sent, awaited>>
    /\ UNCHANGED runVars /\ UNCHANGED invRest

\* main: a line that is passed over (the except clause writes to stderr)
ServeSilent(l) ==
    /\ srvPc = "read" /\ reads < MaxLines
    /\ Unanswered(l)
    /\ line' = l /\ reads' = reads + 1
    /\ UNCHANGED <<apiKey, queue, req, gen, added, history, srvPc, sent, awaited>>
    /\ UNCHANGED runVars /\ UNCHANGED invRest

\* main: initialize and tools/list
ServeControl(l) ==
    /\ srvPc = "read" /\ reads < MaxLines
    /\ l.text = "object" /\ l.method \in ControlMethods
    /\ line' = l /\ reads' = reads + 1
    /\ sent' = Append(sent, <<reads + 1, ResultMessage(l.id, <<l.method>>)>>)
    /\ UNCHANGED <<apiKey, queue, req, gen, added, history, srvPc, awaited>>
    /\ UNCHANGED runVars /\ UNCHANGED invRest

\* main: tools/call, handle_tool_call with the operation it runs; run_batch
\* with a credential blocks in the batch subprocess
ServeTool(l) ==
    /\ srvPc = "read" /\ reads < MaxLines
    /\ l.text = "object" /\ l.method = "tools/call" /\ has_get(l.params.shape)
    /\ line' = l /\ reads' = reads + 1
    /\ LET tool_name == l.params.name
           arguments == l.params.arguments.value
           pre == tool_precheck(tool_name, l.params.arguments)
           reply(outcome) ==
               sent' = Append(sent, <<reads + 1, handle_tool_call(l.id, outcome)>>)
       IN  IF pre.raised
           THEN reply(pre) /\ UNCHANGED <<queue, gen, added, history, srvPc, awaited>>
           ELSE IF tool_name = "generate_image"
           THEN /\ \E response \in Responses :
                     LET g == tool_generate_image(arguments, apiKey, response)
                     IN  /\ gen' = g
                         /\ reply(IF g.success THEN Returned(<<"image">>)
                                  ELSE Raised(<<g.error.kind>>))
                /\ UNCHANGED <<queue, added, history, srvPc, awaited>>
           ELSE IF tool_name = "add_to_batch"
           THEN LET a == tool_add_to_batch(arguments)
                IN  IF a.ok
                    THEN /\ queue' = QueueAdd(queue, a.entry)
                         /\ added' = [ok |-> TRUE, error |-> NoError, index |-> Len(queue)]
                         /\ history' = Append(history, Done("add", <<>>, Len(queue)))
                         /\ reply(Returned(<<"queued">>))
                         /\ UNCHANGED <<gen, srvPc, awaited>>
                    ELSE /\ added' = [ok |-> FALSE, error |-> a.error, index |-> -1]
                         /\ reply(Raised(<<a.error.kind>>))
                         /\ UNCHANGED <<queue, gen, history, srvPc, awaited>>
           ELSE IF tool_name = "remove_from_batch"
           THEN LET id == str_identifier(arguments.identifier)
                IN  /\ queue' = QueueRemove(queue, id)
                    /\ history' = Append(history, Done("remove", id, RemovePosition(queue, id) - 1))
                    /\ reply(Returned(IF RemovePosition(queue, id) = 0 THEN <<"not found">>
                                      ELSE <<"removed">>))
                    /\ UNCHANGED <<gen, added, srvPc, awaited>>
           ELSE IF tool_name = "view_batch_queue"
           THEN reply(Returned(<<"queue">>))
                /\ UNCHANGED <<queue, gen, added, history, srvPc, awaited>>
           ELSE IF tool_name = "run_batch"
           THEN IF ~apiKey
                THEN reply(Returned(run_batch(apiKey, 0)))
                     /\ UNCHANGED <<queue, gen, added, history, srvPc, awaited>>
                ELSE /\ runs < MaxRuns
                     /\ srvPc' = "run_batch" /\ awaited' = runs + 1
                     /\ UNCHANGED <<queue, gen, added, history, sent>>
           ELSE \E raised \in BOOLEAN :
                    /\ reply(IF raised THEN Raised(<<"failed">>) ELSE Returned(<<"done">>))
                    /\ UNCHANGED <<queue, gen, added, history, srvPc, awaited>>
    /\ UNCHANGED <<apiKey, req>>
    /\ UNCHANGED runVars /\ UNCHANGED invRest

\* run_batch: subprocess.run returned, the result envelope is written
ServeBatchDone ==
    /\ srvPc = "run_batch" /\ runs = awaited /\ pc \in {"empty", "done", "crashed"}
    /\ sent' = Append(sent, <<reads, handle_tool_call(line.id, Returned(run_batch(apiKey, returncode(pc))))>>)
    /\ srvPc' = "read"
    /\ UNCHANGED <<apiKey, queue, req, gen, added, history, line, reads, awaited>>
    /\ UNCHANGED runVars /\ UNCHANGED invRest

\* ---------------------------------------------------------- specifications
\* The batch runner alone, run after run, over a queue file of up to MaxQueue
\* entries that nothing else touches.
Next ==
    \/ RunStart
    \/ RunItem
    \/ RunRemoveLoad
    \/ RunRemovePersist
    \/ RunWrite

Spec == Init /\ [][Next]_vars

\* The batch runner next to one other invoker of the queue manager, which adds
\* and removes entries while runs are under way.
InitRace ==
    /\ queue \in SeqsUpTo(BatchEntries, MaxRaceQueue)
    /\ req \in AddArgs
    /\ InitRest

NextRace ==
    \/ RunStart
    \/ RunItem
    \/ RunRemoveLoad
    \/ RunRemovePersist
    \/ RunWrite
    \/ (otherOps < MaxOtherOps /\ \E a \in AddArgs : AddLoad(a))
    \/ AddPersist
    \/ (otherOps < MaxOtherOps /\ \E id \in RemoveIdentifiers : RemoveLoad(id))
    \/ RemovePersist

SpecRace == InitRace /\ [][NextRace]_vars

\* One request, handed to each component in turn: generated at once, queued
\* through add_to_batch, and found in the queue file by a batch run.
RefLists ==
    { <<>>, <<RefA>>, <<RefMissing>>, <<RefB, RefA>>, <<RefA, RefMissing>>,
      [k \in 1..MAX_REF_IMAGES |-> RefA],
      [k \in 1..(MAX_REF_IMAGES + 1) |-> RefA],
      [k \in 1..(MAX_REF_IMAGES + 1) |-> IF k = 2 THEN RefMissing ELSE RefB] }

BuildArgs ==
    [prompt : {"p1"}, filename : {<<"a">>}, aspect_ratio : {None, "16:9"},
     image_size : {None, "small", "large", "xlarge", "huge"},
     quality : {None, "pro", "fast", "ultra"},
     reference_images : RefLists, reference_image : {NoPath, RefA, RefMissing}]

InitBuild ==
    /\ req \in BuildArgs
    /\ queue \in {<<>>, <<req>>}
    /\ InitRest

NextBuild ==
    \/ GenerateImage(req)
    \/ (otherOps < MaxOtherOps /\ AddLoad(req))
    \/ AddPersist
    \/ (runs < MaxBuildRuns /\ RunStart)
    \/ RunItem
    \/ RunRemoveLoad
    \/ RunRemovePersist
    \/ RunWrite

SpecBuild == InitBuild /\ [][NextBuild]_vars

\* The server's main loop over up to MaxLines lines of stdin, with the batch
\* subprocess that run_batch waits for.
ServeArgs ==
    { [NoArguments EXCEPT !.prompt = "p1", !.filename = <<"a">>, !.identifier = <<"0">>],
      [NoArguments EXCEPT !.prompt = "p1", !.filename = <<"a">>, !.reference_images = <<RefMissing>>,
                          !.identifier = <<"zz", ".png">>] }

ServeArguments ==
    {Arguments("absent", NoArguments), Arguments("null", NoArguments)}
        \cup {Arguments("object", a) : a \in ServeArgs}

ServeLines ==
    {RawLine(t) : t \in {"eof", "malformed", "null", "array"}}
        \cup {Line("object", m, id, NoParams) :
                 m \in {"initialize", "tools/list", "notifications/initialized", "bogus", None},
                 id \in {NoId, 1}}
        \cup {Line("object", "tools/call", 2, Params(sh, None, Arguments("absent", NoArguments))) :
                 sh \in {"absent", "null", "array"}}
        \cup {Line("object", "tools/call", 3, Params("object", n, a)) :
                 n \in {"generate_image", "add_to_batch", "remove_from_batch", "run_batch",
                        "convert_to_webp", "no_such_tool"},
                 a \in ServeArguments}

InitServe ==
    /\ queue \in {<<>>, <<Entry("p1", <<"a", ".png">>, "pro", <<>>)>>}
    /\ req \in AddArgs
    /\ InitRest

NextServe ==
    \/ \E l \in ServeLines : ServeStop(l)
    \/ \E l \in ServeLines : ServeSilent(l)
    \/ \E l \in ServeLines : ServeControl(l)
    \/ \E l \in ServeLines : ServeTool(l)
    \/ ServeBatchDone
    \/ (srvPc = "run_batch" /\ runs < awaited /\ RunStart)
    \/ RunItem
    \/ RunRemoveLoad
    \/ RunRemovePersist
    \/ RunWrite

SpecServe == InitServe /\ [][NextServe]_vars

\* The run_batch operation of the server next to batch runs started from the
\* command line, with or without the credential.
RunBatchLines ==
    {Line("object", "tools/call", 3, Params("object", n, Arguments("absent", NoArguments))) :
        n \in {"run_batch"}}
        \cup {Line("object", "tools/call", 4, Params("object", "generate_image", Arguments("object", a))) :
                 a \in ServeArgs}

InitRunBatch ==
    /\ queue \in SeqsUpTo(BatchEntries, MaxRaceQueue)
    /\ req \in AddArgs
    /\ InitRest

NextRunBatch ==
    \/ \E l \in RunBatchLines : ServeTool(l)
    \/ ServeBatchDone
    \/ (srvPc = "run_batch" /\ runs < awaited /\ RunStart)
    \/ (srvPc = "read" /\ RunStart)
    \/ RunItem
    \/ RunRemoveLoad
    \/ RunRemovePersist
    \/ RunWrite

SpecRunBatch == InitRunBatch /\ [][NextRunBatch]_vars

\* The queue manager used by one invoker at a time, from an empty queue.
QueueArgs ==
    { Entry("p1", <<"a", ".png">>, "pro", <<>>), Entry("p2", <<"a">>, "fast", <<>>),
      Entry("p3", <<"n", ".png">>, "pro", <<>>) }
QueueIdentifiers ==
    { <<"0">>, <<"1">>, <<"a", ".png">>, <<"n", ".png">>, <<"zz", ".png">> }

InitQueue ==
    /\ queue = <<>>
    /\ req \in QueueArgs
    /\ InitRest

NextQueue ==
    \/ (otherOps < MaxQueueOps /\ \E a \in QueueArgs : AddLoad(a))
    \/ AddPersist
    \/ (otherOps < MaxQueueOps /\ \E id \in QueueIdentifiers : RemoveLoad(id))
    \/ RemovePersist

SpecQueue == InitQueue /\ [][NextQueue]_vars

\* ------------------------------------------------------------------ claims
Count(q, e) == Cardinality({k \in DOMAIN q : q[k] = e})
Range(q) == {q[k] : k \in DOMAIN q}
PostsOf(k) == {j \in DOMAIN posts : posts[j][1] = k}
\* the run stands at an item boundary: Len(results) entries are fully processed
AtBoundary == pc \in {"item", "write", "done", "crashed"}

\* C1: after one completed batch run over a queue nothing else touches, the
\* queue holds exactly the entries whose outcome was an error, in their
\* original order, and a second run then attempts exactly those entries.
C1_QueueIsTheFailedEntries ==
    /\ pc = "done" => queue = FailedEntries(prompts, results, 1)
    /\ (runs >= 2 /\ lastFailed.run = runs - 1 /\ pc \in {"item", "empty"})
           => prompts = lastFailed.entries

\* C2: no per-item failure aborts the run: the failed entry stays in the
\* queue, an error outcome carrying the failure is appended for it, and every
\* later snapshot entry is still attempted.
C2_FailureIsolated ==
    /\ pc # "crashed"
    /\ pc \in {"write", "done"} => Len(results) = Len(prompts)
    /\ \A k \in DOMAIN results :
           results[k].status = "error"
               => results[k].error # NoError /\ Count(queue, prompts[k]) >= 1

\* C3: stopped at any item boundary, after k snapshot entries, the queue no
\* longer holds the entries that succeeded among the first k and still holds
\* every entry not yet attempted.
C3_CrashResilient ==
    AtBoundary =>
        \A e \in Range(prompts) :
            /\ Count(queue, e) >=
                   Cardinality({j \in DOMAIN prompts : j > Len(results) /\ prompts[j] = e})
            /\ Count(queue, e) <=
                   Cardinality({j \in DOMAIN prompts :
                                   /\ prompts[j] = e
                                   /\ (j > Len(results) \/ results[j].status # "success")})

\* C4: a batch run that finishes its loop over N snapshot entries has N
\* outcomes, the i-th for the i-th entry, each a success or an error, so
\* attempted = N = succeeded + failed; the list is written to the summary
\* file once, after the last item.
C4_BatchResultShape ==
    /\ Len(results) <= Len(prompts)
    /\ \A k \in DOMAIN results :
           /\ results[k].filename = item_filename(prompts[k], k)
           /\ results[k].status \in {"success", "error"}
    /\ pc \in {"write", "done"} =>
           /\ Len(results) = Len(prompts)
           /\ Cardinality({k \in DOMAIN results : results[k].status = "success"})
                + Cardinality({k \in DOMAIN results : results[k].status = "error"})
              = Len(prompts)
    /\ pc = "done" => summary = [run |-> runs, content |-> results, writes |-> 1]
    /\ Running => summary.writes = 0

C4_Witness ==
    /\ pc = "done" /\ Len(prompts) = 3 /\ summary.content = results
    /\ results[1].status = "success" /\ results[2].status = "error"
    /\ results[3].status = "success"

\* C5 as claimed: no dequeue-on-success step of a run removes or loses an
\* entry that another invoker added while the run was under way.
C5_LateAddNeverLost ==
    [][(pc = "persist" /\ pc' # "persist")
          => \A e \in lateAdds : Count(queue', e) >= Count(queue, e)]_vars

\* C5 as amended: the snapshot is fixed when the run starts, so a late entry
\* is never attempted; a dequeue step that does not overlap the add (the
\* queue file is as the step loaded it) leaves the late entry in the queue
\* unless the succeeded entry's file name is the late entry's or an index.
C5_LateAddKeptWithoutOverlap ==
    /\ [][(Running /\ Running') => prompts' = prompts]_vars
    /\ [][(pc = "persist" /\ pc' # "persist" /\ rmLocal = queue)
             => \A e \in lateAdds :
                    (e.filename # prompts[i].filename /\ ParseIndex(prompts[i].filename) = -1)
                        => Count(queue', e) >= Count(queue, e)]_vars

C5_Witness ==
    /\ pc = "done" /\ lateAdds # {}
    /\ \A e \in lateAdds : Count(queue, e) = 1 /\ Count(prompts, e) = 0
    /\ \E k \in DOMAIN results : results[k].status = "success"

\* C6: within a run every snapshot entry causes at most one POST, whatever
\* the answer; a failed entry is POSTed again only by a later run, whose
\* snapshot is the queue as that run finds it.
C6_NoRetry ==
    /\ [][posts' # posts =>
            \/ runs' # runs /\ posts' = <<>>
            \/ /\ pc = "item" /\ runs' = runs /\ PostsOf(i) = {}
               /\ Len(posts') = Len(posts) + 1
               /\ posts'[Len(posts')][1] = i
               /\ \A j \in DOMAIN posts : posts'[j] = posts[j]]_vars
    /\ [][runs' # runs => prompts' = (IF apiKey THEN queue ELSE <<>>)]_vars

C6_Witness ==
    /\ runs = 2 /\ lastFailed.run = 1 /\ lastFailed.entries = prompts
    /\ Len(results) = 1 /\ results[1].error = ApiError(500)
    /\ Cardinality(PostsOf(1)) = 1

\* The request under test: its resolved tier and its effective reference paths
ReqQuality == coerce_quality(Get(req.quality, "pro"))
ReqPaths == normalize_paths(req.reference_images, req.reference_image)
ReqFirstMissing == ReqPaths[FirstMissing(ReqPaths, 1)]
Generated == gen # GenIdle
\* the positions of the run's snapshot that hold the request as it was given
Drained == {k \in DOMAIN results : prompts[k] = req}

\* C7 (for a request on the pro model, credential present): with more than
\* MAX_REF_IMAGES reference images the request fails with the capacity error
\* naming the limit and nothing is POSTed - in generate_image, in
\* add_to_batch and for a queue entry the batch runner drains.
C7_CapacityEnforced ==
    (apiKey /\ ReqQuality = "pro" /\ Len(req.reference_images) > MAX_REF_IMAGES) =>
        /\ Generated => gen.error = TooMany(Len(req.reference_images)) /\ gen.posts = <<>>
        /\ added # AddIdle => added.error = TooMany(Len(req.reference_images))
        /\ invPc # "add"
        /\ \A k \in Drained :
               results[k].error = TooMany(Len(req.reference_images)) /\ PostsOf(k) = {}

\* C8 as claimed (credential present): a pro request with a reference path
\* that does not exist fails with the not-found error naming a missing path,
\* and nothing is POSTed for it, in generate_image and in the batch runner.
C8_MissingReferenceIsNotFound ==
    (apiKey /\ ReqQuality = "pro" /\ FirstMissing(ReqPaths, 1) # 0) =>
        /\ Generated =>
               /\ gen.error.kind = "Reference image not found"
               /\ gen.error.path \in Range(ReqPaths) /\ ~exists(gen.error.path)
               /\ gen.posts = <<>>
        /\ \A k \in Drained :
               /\ results[k].error.kind = "Reference image not found"
               /\ results[k].error.path \in Range(ReqPaths) /\ ~exists(results[k].error.path)
               /\ PostsOf(k) = {}

\* C8 as amended: such a request never reaches the API; it fails with the
\* not-found error naming the first missing path, except that generate_image
\* reports the missing credential first and, for a list longer than
\* MAX_REF_IMAGES, the capacity error.
C8_MissingReferenceNeverPosted ==
    (ReqQuality = "pro" /\ FirstMissing(ReqPaths, 1) # 0) =>
        /\ Generated =>
               /\ gen.posts = <<>>
               /\ gen.error = IF ~apiKey THEN KeyMissing
                              ELSE IF Len(ReqPaths) > MAX_REF_IMAGES THEN TooMany(Len(ReqPaths))
                              ELSE NotFound(ReqFirstMissing)
        /\ \A k \in Drained :
               results[k].error = NotFound(ReqFirstMissing) /\ PostsOf(k) = {}

C8_Witness ==
    /\ ReqQuality = "pro" /\ Len(ReqPaths) = 2 /\ FirstMissing(ReqPaths, 1) = 2
    /\ gen.error = NotFound(RefMissing)
    /\ Drained # {} /\ pc = "done"

\* C9: a fast request with reference images (a list or a single path) is not
\* rejected for them; what is POSTed for it carries the prompt part alone and
\* the recorded reference count is 0, in generate_image, add_to_batch (the
\* entry queued has no references) and the batch runner.
C9_FastDropsReferences ==
    (Get(req.quality, "pro") = "fast" /\ ReqPaths # <<>>) =>
        /\ \A j \in DOMAIN gen.posts : gen.posts[j].parts = <<[text |-> req.prompt]>>
        /\ gen.error.kind \notin {"Too many reference images", "Reference image not found"}
        /\ gen.reference_images_used = 0
        /\ added.error = NoError
        /\ invPc = "add" => invArg.reference_images = <<>> /\ invArg.reference_image = NoPath
        /\ \A k \in DOMAIN queue :
               queue[k] # req => queue[k].reference_images = <<>> /\ queue[k].reference_image = NoPath
        /\ \A j \in DOMAIN posts : posts[j][2].parts = <<[text |-> req.prompt]>>
        /\ \A k \in DOMAIN results :
               /\ results[k].reference_images_used = 0
               /\ results[k].error.kind
                      \notin {"Too many reference images", "Reference image not found"}

C9_Witness ==
    /\ Get(req.quality, "pro") = "fast" /\ Len(req.reference_images) > MAX_REF_IMAGES
    /\ FirstMissing(ReqPaths, 1) # 0
    /\ gen.success /\ added.ok /\ pc = "done"
    /\ Len(results) = 2 /\ results[1].status = "success" /\ results[2].status = "success"

\* C10: a fast request that leaves image_size at its default is resolved as
\* "small": the resolution recorded for it is 1K (the size queued is small),
\* in generate_image, add_to_batch and the batch runner.
C10_FastDefaultIsSmall ==
    (Get(req.quality, "pro") = "fast" /\ req.image_size = None) =>
        /\ gen.success => gen.resolution = "1K"
        /\ invPc = "add" => invArg.image_size = "small"
        /\ \A k \in DOMAIN results :
               results[k].status = "success" => results[k].resolution = "1K"

\* A line counts as a request if it is an object with a method other than the
\* acknowledgment: a control method, tools/call, or any other method sent
\* with an id.
IsRequest(l) ==
    /\ l.text = "object" /\ l.method \notin {None, "notifications/initialized"}
    /\ (l.method \in (ControlMethods \cup {"tools/call"}) \/ l.id # NoId)
AnswersTo(n) == {j \in DOMAIN sent : sent[j][1] = n}

\* C11: whenever the loop is back at read_message, the request read last has
\* exactly one response, carrying its id; the acknowledgment has none.
C11_StrictPairing ==
    (srvPc = "read" /\ reads > 0) =>
        /\ IsRequest(line) =>
               /\ Cardinality(AnswersTo(reads)) = 1
               /\ \A j \in AnswersTo(reads) : sent[j][2].id = line.id
        /\ (line.text = "object" /\ line.method = "notifications/initialized") =>
               AnswersTo(reads) = {}

\* the tools/call just read failed: its name is unknown, its arguments are not
\* an object where the operation reads them, generate_image did not succeed
\* or add_to_batch queued nothing
CallFailed ==
    /\ reads' = reads + 1
    /\ line'.text = "object" /\ line'.method = "tools/call" /\ has_get(line'.params.shape)
    /\ \/ line'.params.name \notin ToolNames
       \/ line'.params.name \in ReadsArguments /\ ~has_get(line'.params.arguments.shape)
       \/ line'.params.name = "generate_image" /\ ~gen'.success
       \/ line'.params.name = "add_to_batch" /\ ~added'.ok

\* C12: a failed operation of a tools/call is answered by exactly one message,
\* an error envelope with the request's id, a numeric code and a message
\* (naming the operation if it is unknown), and the loop goes on reading.
C12_ErrorEnvelope ==
    [][CallFailed =>
          /\ Len(sent') = Len(sent) + 1
          /\ \A j \in DOMAIN sent : sent'[j] = sent[j]
          /\ sent'[Len(sent')][1] = reads'
          /\ LET m == sent'[Len(sent')][2]
             IN  /\ m.kind = "error" /\ m.id = line'.id
                 /\ m.code \in Int /\ m.code # 0 /\ m.text # <<>>
                 /\ line'.params.name \notin ToolNames =>
                        \E k \in DOMAIN m.text : m.text[k] = line'.params.name
          /\ srvPc' = "read"]_vars

C12_Witness ==
    /\ reads = 3 /\ srvPc = "read" /\ Len(sent) = 3
    /\ sent[1][2] = ErrorMessage(3, <<"Unknown tool: ", "no_such_tool">>)
    /\ sent[2][2] = ErrorMessage(3, <<"Reference image not found">>)
    /\ sent[3][2] = ErrorMessage(3, <<"AttributeError">>)

\* C13: the loop has ended only if the input channel was closed (readline
\* returned the empty string).
C13_StopsOnlyAtEof ==
    srvPc = "stopped" => line = EofLine

\* the history is n adds followed by n removes of index 0
RoundTrip(h) ==
    /\ Len(h) > 0 /\ Len(h) % 2 = 0
    /\ \A k \in DOMAIN h :
           IF 2 * k <= Len(h) THEN h[k].op = "add"
           ELSE h[k].op = "remove" /\ h[k].identifier = <<"0">>

\* C14: from the empty queue, an add appends its entry at the end and reports
\* its index; n adds followed by n removes of index 0 leave the queue empty;
\* a remove by the filename of a queued entry takes out exactly one entry of
\* that name and leaves the others as they were, in order.
C14_QueueRoundTrip ==
    /\ [][(invPc = "add" /\ invPc' = "idle") =>
              /\ Len(queue') = Len(queue) + 1
              /\ \A k \in DOMAIN queue : queue'[k] = queue[k]
              /\ queue'[Len(queue')].prompt = invArg.prompt
              /\ history'[Len(history')].reported = Len(queue)]_vars
    /\ [][(invPc' = "idle" /\ RoundTrip(history')) => queue' = <<>>]_vars
    /\ [][(invPc = "remove" /\ invPc' = "idle"
              /\ \E k \in DOMAIN queue : queue[k].filename = invArg) =>
              \E k \in DOMAIN queue :
                  /\ queue[k].filename = invArg
                  /\ Len(queue') = Len(queue) - 1
                  /\ \A j \in DOMAIN queue' : queue'[j] = IF j < k THEN queue[j] ELSE queue[j + 1]]_vars

C14_Witness ==
    /\ Len(history) = 6 /\ RoundTrip(history) /\ queue = <<>> /\ invPc = "idle"

\* the least position of q whose entry has the file name, 0 if there is none
LeastNamed(q, filename) ==
    IF \E k \in DOMAIN q : q[k].filename = filename
    THEN CHOOSE k \in DOMAIN q :
             q[k].filename = filename /\ \A j \in 1..(k - 1) : q[j].filename # filename
    ELSE 0
Without(q, k) == SubSeq(q, 1, k - 1) \o SubSeq(q, k + 1, Len(q))

\* C15: a remove takes out the entry at the index if the identifier is an
\* index within the queue, else the first entry named by the identifier, else
\* nothing, reporting NotFound; never more than one entry.
C15_RemoveResolution ==
    [][(invPc = "remove" /\ invPc' = "idle") =>
          LET n == ParseIndex(invArg)
              removed == history'[Len(history')].reported
          IN  /\ IF n >= 0 /\ n < Len(queue)
                 THEN queue' = Without(queue, n + 1) /\ removed = n
                 ELSE IF LeastNamed(queue, invArg) # 0
                 THEN queue' = Without(queue, LeastNamed(queue, invArg))
                      /\ removed = LeastNamed(queue, invArg) - 1
                 ELSE queue' = queue /\ removed = -1
              /\ Len(queue') >= Len(queue) - 1]_vars

C15_Witness ==
    /\ Len(history) = 6 /\ Len(queue) = 1 /\ invPc = "idle"
    /\ history[4] = Done("remove", <<"1">>, 1)
    /\ history[5] = Done("remove", <<"a", ".png">>, 1)
    /\ history[6] = Done("remove", <<"1">>, -1)

\* C16: a run that has ended, over an empty queue or past its loop, has
\* written the summary file exactly once, and the file lists that run's
\* outcomes.
C16_SummaryIsOfThisRun ==
    pc \in {"empty", "done"} =>
        summary.writes = 1 /\ summary.run = runs /\ summary.content = results

\* C17: before the i-th item is attempted exactly i-1 pauses have been made,
\* one after each earlier item whatever its outcome; a run past its loop over
\* N entries has made N-1 pauses, a run over an empty queue none.
C17_Pacing ==
    /\ pc \in {"item", "remove", "persist"} => sleeps = i - 1 /\ Len(results) = i - 1
    /\ pc \in {"write", "done"} => sleeps = Len(prompts) - 1 /\ Len(prompts) >= 1
    /\ pc = "empty" => sleeps = 0 /\ Len(prompts) = 0

C17_Witness ==
    /\ pc = "done" /\ Len(prompts) = 3 /\ sleeps = 2
    /\ results[1].status = "error" /\ results[2].status = "success"
    /\ results[3].status = "error"

\* the payload the claim describes for the request: its reference images in
\* the order given (none on the fast model), then the prompt
ExpectedParts ==
    LET paths == IF ReqQuality = "pro" THEN ReqPaths ELSE <<>>
    IN  [k \in 1..(Len(paths) + 1) |->
            IF k <= Len(paths)
            THEN [inlineData |-> [mimeType |-> get_mime_type(paths[k]), data |-> b64(paths[k])]]
            ELSE [text |-> req.prompt]]
ExpectedShape(payload) ==
    /\ payload.parts = ExpectedParts
    /\ ("imageSize" \in DOMAIN payload.imageConfig) <=> (ReqQuality = "pro")
    /\ (ReqQuality = "pro" /\ Get(req.image_size, "large") \in DOMAIN size_map) =>
           payload.imageConfig.imageSize =
               CASE Get(req.image_size, "large") = "small" -> "1K"
                 [] Get(req.image_size, "large") = "medium" -> "2K"
                 [] Get(req.image_size, "large") = "large" -> "2K"
                 [] Get(req.image_size, "large") = "xlarge" -> "4K"

\* C18: every payload POSTed for the request, by generate_image or by the
\* batch runner, has the encoded reference images in input order followed by
\* the one prompt part, and imageSize exactly on the pro model, with the
\* table's value for the size class.
C18_PayloadShape ==
    /\ \A j \in DOMAIN gen.posts : ExpectedShape(gen.posts[j])
    /\ \A j \in DOMAIN posts : prompts[posts[j][1]] = req => ExpectedShape(posts[j][2])

C18_Witness ==
    /\ req.reference_images = <<RefB, RefA>> /\ req.image_size = "xlarge" /\ req.quality = "pro"
    /\ gen.success /\ Len(gen.posts[1].parts) = 3
    /\ pc = "done" /\ Drained = {1} /\ results[1].status = "success"
    /\ Len(posts[1][2].parts) = 3

\* C19: a request whose quality is neither pro nor fast is handled as the
\* same request with quality pro: same outcome of generate_image (pro model,
\* references, imageSize), same entry queued, same result of the batch runner.
C19_UnknownTierIsPro ==
    req.quality \notin {"pro", "fast"} =>
        /\ Generated =>
               /\ \E response \in Responses :
                      gen = tool_generate_image([req EXCEPT !.quality = "pro"], apiKey, response)
               /\ gen.success =>
                      /\ gen.model = MODELS["pro"] /\ gen.quality = "pro"
                      /\ gen.reference_images_used = Len(ReqPaths)
               /\ \A j \in DOMAIN gen.posts :
                      /\ gen.posts[j].model = MODELS["pro"]
                      /\ "imageSize" \in DOMAIN gen.posts[j].imageConfig
                      /\ Len(gen.posts[j].parts) = Len(ReqPaths) + 1
        /\ invPc = "add" =>
               invArg.quality = "pro" /\ invArg.reference_images = ReqPaths
        /\ added.error.kind = "Too many reference images" => Len(ReqPaths) > MAX_REF_IMAGES
        /\ \A k \in Drained :
               /\ \E response \in Responses :
                      results[k] = batch_item([req EXCEPT !.quality = "pro"], k, response).result
               /\ results[k].status = "success" =>
                      results[k].reference_images_used = Len(ReqPaths)
        /\ \A j \in DOMAIN posts : prompts[posts[j][1]] = req =>
               /\ posts[j][2].model = MODELS["pro"]
               /\ "imageSize" \in DOMAIN posts[j][2].imageConfig
               /\ Len(posts[j][2].parts) = Len(ReqPaths) + 1

C19_Witness ==
    /\ req.quality = "ultra" /\ req.reference_images = <<RefB, RefA>>
    /\ gen.success /\ gen.model = MODELS["pro"]
    /\ added.ok /\ pc = "done" /\ Drained = {1} /\ results[1].status = "success"

\* C20: a fast request that names the size class large keeps it: the
\* resolution looked up for it is that of large, 2K, in generate_image,
\* add_to_batch (the size queued stays large) and the batch runner.
C20_ExplicitLargeKept ==
    (req.quality = "fast" /\ req.image_size = "large") =>
        /\ gen.success => gen.resolution = "2K"
        /\ invPc = "add" => invArg.image_size = "large"
        /\ \A k \in Drained : results[k].status = "success" => results[k].resolution = "2K"

\* C21: every write of the queue file is computed from the copy its writer
\* loaded, whatever the file holds by then (last writer wins): an add writes
\* its copy plus the entry, a remove and the run's dequeue write their copy
\* less one entry; so an entry written by another invoker between the load
\* and the write is lost.
C21_LastWriterWins ==
    /\ [][(invPc = "add" /\ invPc' = "idle") =>
              /\ Len(queue') = Len(invLocal) + 1
              /\ SubSeq(queue', 1, Len(invLocal)) = invLocal]_vars
    /\ [][queue' # queue =>
              \/ invPc = "add" /\ invPc' = "idle"
              \/ /\ invPc = "remove" /\ invPc' = "idle"
                 /\ \E k \in DOMAIN invLocal : queue' = Without(invLocal, k)
              \/ /\ pc = "persist" /\ pc' # "persist"
                 /\ \E k \in DOMAIN rmLocal : queue' = Without(rmLocal, k)]_vars

\* an entry added during the run, by the invoker's only operation, is in the
\* queue no more although the run never had it in its snapshot
C21_Witness ==
    /\ pc = "done" /\ invPc = "idle"
    /\ Len(history) = 1 /\ history[1].op = "add"
    /\ lateAdds # {}
    /\ \A e \in lateAdds : Count(queue, e) = 0 /\ Count(prompts, e) = 0

\* the k-th snapshot entry has succeeded: its result says so, or the run is
\* between its image file and its results.append
Succeeded(k) ==
    \/ k <= Len(results) /\ results[k].status = "success"
    \/ k = i /\ pc \in {"remove", "persist"}

\* C22: at every point of a run the queue still holds each snapshot entry
\* that has failed or has not been attempted, and the image file of every
\* entry that has succeeded is written.
C22_NoDequeueWithoutImage ==
    pc \in {"item", "remove", "persist", "write", "done", "crashed"} =>
        /\ \A e \in Range(prompts) :
               Count(queue, e) >=
                   Cardinality({k \in DOMAIN prompts : prompts[k] = e /\ ~Succeeded(k)})
        /\ \A k \in DOMAIN prompts : Succeeded(k) => item_filename(prompts[k], k) \in images

\* the step reads a tools/call of run_batch
ReadsRunBatch ==
    /\ reads' = reads + 1
    /\ line'.text = "object" /\ line'.method = "tools/call"
    /\ line'.params.name = "run_batch"

\* C23: without the credential no step changes the queue, the image files,
\* the POSTs or the results, a batch run ends at its credential check, and
\* run_batch starts no batch process and answers success false with the
\* missing credential as the error.
C23_NoCredentialNoEffect ==
    /\ [][~apiKey =>
              /\ queue' = queue /\ images' = images
              /\ posts' = <<>> /\ results' = <<>> /\ gen'.posts = <<>>
              /\ pc' \in {"idle", "nokey"}]_vars
    /\ [][(~apiKey /\ ReadsRunBatch) =>
              /\ Len(sent') = Len(sent) + 1
              /\ sent'[Len(sent')][2].id = line'.id
              /\ sent'[Len(sent')][2].text =
                     <<"success", "false", "error", "GEMINI_API_KEY not set">>
              /\ srvPc' = "read" /\ runs' = runs]_vars

C23_Witness ==
    /\ ~apiKey /\ pc = "nokey" /\ runs = 2 /\ Len(queue) = 2 /\ images = {}
    /\ reads = 3 /\ Len(sent) = 3
    /\ gen.error = KeyMissing
    /\ line.params.name = "run_batch"
    /\ sent[3][2] = ResultMessage(3, <<"success", "false", "error", "GEMINI_API_KEY not set">>)

\* C24: for a request that generate_image has handled and the batch runner
\* has drained, with the credential set: either both stopped before any POST
\* or neither did, the payloads POSTed are equal, and when both succeeded the
\* resolution, aspect ratio and reference count recorded are equal.
C24_BatchAgreesWithImmediate ==
    (apiKey /\ Generated) =>
        \A k \in Drained :
            /\ (gen.posts = <<>>) <=> (PostsOf(k) = {})
            /\ \A j \in PostsOf(k) : \A g \in DOMAIN gen.posts : posts[j][2] = gen.posts[g]
            /\ (gen.success /\ results[k].status = "success") =>
                   /\ results[k].resolution = gen.resolution
                   /\ results[k].aspect_ratio = gen.aspect_ratio
                   /\ results[k].reference_images_used = gen.reference_images_used

\* C25: when the batch process that run_batch waited for has returned (past
\* its loop or on an empty queue), the answer is a result envelope with
\* success true and a null error, whatever the outcomes of the items.
C25_SuccessIsExitStatus ==
    [][(srvPc = "run_batch" /\ srvPc' = "read" /\ pc \in {"done", "empty"}) =>
          /\ Len(sent') = Len(sent) + 1
          /\ sent'[Len(sent')][2] =
                 ResultMessage(line.id, <<"success", "true", "error", "null">>)]_vars

C25_Witness ==
    /\ srvPc = "read" /\ pc = "done" /\ runs = awaited
    /\ Len(results) = 2 /\ results[1].status = "error" /\ results[2].status = "error"
    /\ sent # <<>>
    /\ sent[Len(sent)][2] = ResultMessage(3, <<"success", "true", "error", "null">>)

=============================================================================
